---- MODULE Spec2Model ----
(***************************************************************************)
(* Model of the Wii-nunchuck polling driver (src/nunchuck.py, class        *)
(* Nunchuck): the I2C request/read cycle, the 6-byte frame decoder, the    *)
(* C/Z button decode in both modes, and the joystick calibration and       *)
(* angle-percentage computation.                                           *)
(***************************************************************************)
EXTENDS Integers, Sequences, FiniteSets, TLC

\* ------------------------------------------------------------------------
\* Bounds of the model
\* ------------------------------------------------------------------------
\* number of public calls made on the instance after construction
MaxCalls == 2

\* ------------------------------------------------------------------------
\* Class constants
\* ------------------------------------------------------------------------
address == 82
tolerance_joy_x == 15
tolerance_joy_y == 5
Z_BUTTON == 1
C_BUTTON == 2

\* a bytearray element is 0..255, a bytearray(6) has six of them
ByteMax == 255
FrameLen == 6
SettleMs == 5
Byte == 0..ByteMax

\* ------------------------------------------------------------------------
\* Integer bit operations of Python on non-negative ints
\* ------------------------------------------------------------------------
RECURSIVE Pow2(_)
Pow2(n) == IF n = 0 THEN 1 ELSE 2 * Pow2(n - 1)

\* a << n
Shl(a, n) == a * Pow2(n)
\* a >> n
Shr(a, n) == a \div Pow2(n)

RECURSIVE BitAnd(_, _)
\* a & b
BitAnd(a, b) ==
    IF a = 0 \/ b = 0 THEN 0
    ELSE (IF a % 2 = 1 /\ b % 2 = 1 THEN 1 ELSE 0) + 2 * BitAnd(a \div 2, b \div 2)

RECURSIVE BitOr(_, _)
\* a | b
BitOr(a, b) ==
    IF a = 0 THEN b
    ELSE IF b = 0 THEN a
    ELSE (IF a % 2 = 1 \/ b % 2 = 1 THEN 1 ELSE 0) + 2 * BitOr(a \div 2, b \div 2)

Abs(x) == IF x < 0 THEN -x ELSE x

\* ------------------------------------------------------------------------
\* State of one Nunchuck instance and of the bus it drives
\* ------------------------------------------------------------------------
VARIABLES
    nunchuck_c_z_fix_mode,  \* self.nunchuck_c_z_fix_mode
    buffer,                 \* self.buffer, a bytearray(6) (1-indexed here)
    _joy_x_center,          \* self._joy_x_center
    _joy_y_center,          \* self._joy_y_center
    i2c,                    \* the operations the bus and the delay primitive saw
    pc,                     \* per execution context: the statement it is at
    op,                     \* per execution context: the public method it runs
    result,                 \* per execution context: what its last call returned
    raised,                 \* per execution context: the exception its last call raised
    filled,                 \* the device's bytes were read into the current buffer
    calls,                  \* public calls made since construction
    overlapped,             \* two contexts were inside a method at the same time
    saw_unfilled,           \* accessors decoded a buffer the device had not filled
    stmt,                   \* per execution context: the statement after update() it is at
    local,                  \* per execution context: locals of the running method
    called,                 \* the public methods callers have entered
    orphaned                \* the contexts holding a bytearray that is no longer self.buffer

vars == <<nunchuck_c_z_fix_mode, buffer, _joy_x_center, _joy_y_center, i2c, pc, op,
          result, raised, filled, calls, overlapped, saw_unfilled, stmt, local, called,
          orphaned>>

\* ------------------------------------------------------------------------
\* Frame decoder (the accessors read self.buffer)
\* ------------------------------------------------------------------------
joy_x == buffer[1]
joy_y == buffer[2]
joy_x_center == _joy_x_center
joy_y_center == _joy_y_center

\* lines 94, 98, 102: the two reads of self.buffer in the expression, the
\* high byte first
accel_hi(k) == Shl(buffer[k], 2)
\* seeded fault: every fragment taken at the X offset
accel_lo_shift2(shift) == BitAnd(Shr(buffer[6], 2), 3)
accel_lo(shift) == BitAnd(Shr(buffer[6], shift), 3)

accel_x == accel_hi(3) + accel_lo(2)
accel_y == accel_hi(4) + accel_lo(4)
accel_z == accel_hi(5) + accel_lo(6)

\* ------------------------------------------------------------------------
\* Buttons
\* ------------------------------------------------------------------------
\* line 111 and line 112: two statements, each reading self.buffer[5]
value_c_read == BitAnd(buffer[6], C_BUTTON) = C_BUTTON
value_z_read == BitAnd(buffer[6], Z_BUTTON) = Z_BUTTON

\* seeded fault: fix mode decoded independently per bit
z_c_decode_independent(value_c, value_z) == <<~value_c, ~value_z>>

\* lines 116-126: <<button C, button Z>> from the two values read
z_c_decode(value_c, value_z) ==
    IF value_c /\ value_z THEN <<FALSE, FALSE>>
    ELSE IF ~value_c /\ value_z THEN <<TRUE, FALSE>>
    ELSE IF ~value_c /\ ~value_z THEN <<FALSE, TRUE>>
    ELSE <<TRUE, TRUE>>

z_c_buttons == z_c_decode(value_c_read, value_z_read)

\* line 134
z_button_default == ~(BitAnd(buffer[6], Z_BUTTON) = Z_BUTTON)

\* seeded fault: default mode read active-high
c_button_default_active_high == BitAnd(buffer[6], C_BUTTON) = C_BUTTON

\* line 141
c_button_default == ~(BitAnd(buffer[6], C_BUTTON) = C_BUTTON)

z_button == IF nunchuck_c_z_fix_mode THEN z_c_buttons[2] ELSE z_button_default

c_button == IF nunchuck_c_z_fix_mode THEN z_c_buttons[1] ELSE c_button_default

\* ------------------------------------------------------------------------
\* Python float arithmetic (IEEE-754 binary64, round to nearest, ties to even)
\* A float is [neg, h, m, l, e]: value = (-1)^neg * (h*2^36 + m*2^18 + l) * 2^e
\* with a 53-bit significand (2^16 <= h < 2^17; m, l < 2^18), or zero (h = 0).
\* ------------------------------------------------------------------------
Limb == Pow2(18)
TopLo == Pow2(16)
TopHi == Pow2(17)

FloatZero == [neg |-> FALSE, h |-> 0, m |-> 0, l |-> 0, e |-> 0]

RECURSIVE BitLen(_)
BitLen(n) == IF n = 0 THEN 0 ELSE 1 + BitLen(n \div 2)

RECURSIVE Scale(_, _, _)
\* <<A, B, s>> with A/B = (a/b) / 2^s and B <= A < 2B
Scale(a, b, s) ==
    IF a < b THEN Scale(2 * a, b, s - 1)
    ELSE IF a >= 2 * b THEN Scale(a, 2 * b, s + 1)
    ELSE <<a, b, s>>

\* the significand plus one unit in the last place
NextUp(x) ==
    IF x.l + 1 < Limb THEN [x EXCEPT !.l = x.l + 1]
    ELSE IF x.m + 1 < Limb THEN [x EXCEPT !.l = 0, !.m = x.m + 1]
    ELSE IF x.h + 1 < TopHi THEN [x EXCEPT !.l = 0, !.m = 0, !.h = x.h + 1]
    ELSE [x EXCEPT !.l = 0, !.m = 0, !.h = TopLo, !.e = x.e + 1]

\* x is the truncated result, twice_rem/den the discarded fraction times two
RoundNearestEven(x, twice_rem, den) ==
    IF twice_rem > den \/ (twice_rem = den /\ x.l % 2 = 1) THEN NextUp(x) ELSE x

\* a / b for ints a, b with b > 0 (int.__truediv__)
py_truediv(a, b) ==
    IF a = 0 THEN FloatZero
    ELSE LET n  == Scale(Abs(a), b, 0)
             A  == n[1]
             B  == n[2]
             r0 == A - B
             d1 == (r0 * TopLo) \div B
             r1 == (r0 * TopLo) % B
             d2 == (r1 * Limb) \div B
             r2 == (r1 * Limb) % B
             d3 == (r2 * Limb) \div B
             r3 == (r2 * Limb) % B
         IN  RoundNearestEven([neg |-> a < 0, h |-> TopLo + d1, m |-> d2, l |-> d3,
                               e |-> n[3] - 52], 2 * r3, B)

\* x * k for a float x and a small positive int k (float.__mul__)
py_float_mul(x, k) ==
    IF x.h = 0 THEN FloatZero
    ELSE LET pl == x.l * k
             pm == x.m * k + pl \div Limb
             ph == x.h * k + pm \div Limb
             L  == pl % Limb
             M  == pm % Limb
             t  == BitLen(ph) - 17
             T  == Pow2(t)
         IN  RoundNearestEven([neg |-> x.neg,
                               h |-> ph \div T,
                               m |-> ((ph % T) * Limb + M) \div T,
                               l |-> ((M % T) * Limb + L) \div T,
                               e |-> x.e + t], 2 * (L % T), T)

\* seeded fault: round half up instead of truncating
py_int_round(x) ==
    LET shift == -x.e - 36
        mag == IF x.h = 0 \/ shift > 17 THEN 0
               ELSE IF shift >= 1 THEN (x.h \div Pow2(shift)) + ((x.h \div Pow2(shift - 1)) % 2)
               ELSE x.h * Pow2(-shift) + x.m \div Pow2(18 + shift)
    IN  IF x.neg THEN -mag ELSE mag

\* int(x): truncation toward zero
py_int(x) ==
    LET shift == -x.e - 36
        mag == IF x.h = 0 \/ shift > 17 THEN 0
               ELSE IF shift >= 0 THEN x.h \div Pow2(shift)
               ELSE x.h * Pow2(-shift) + x.m \div Pow2(18 + shift)
    IN  IF x.neg THEN -mag ELSE mag

\* ------------------------------------------------------------------------
\* Joystick angle percentages.  A call either returns (exc = "None") or
\* raises (exc names the exception).
\* ------------------------------------------------------------------------
Return(v) == [exc |-> "None", val |-> v]
Raise(e) == [exc |-> e, val |-> 0]

\* seeded fault: the two branches of the sign test exchanged
angle_value_sign_swapped(offset, positive, center) ==
    IF center = 0 THEN Raise("ZeroDivisionError")
    ELSE IF ~positive
         THEN Return(py_int(py_float_mul(py_truediv(offset, center), 100)))
         ELSE Return(py_int(py_float_mul(py_truediv(-1 * offset, center), 100)))

\* lines 151 and 153 (162 and 164): the division after the sign test
angle_value(offset, positive, center) ==
    IF center = 0 THEN Raise("ZeroDivisionError")
    ELSE IF positive
         THEN Return(py_int(py_float_mul(py_truediv(offset, center), 100)))
         ELSE Return(py_int(py_float_mul(py_truediv(-1 * offset, center), 100)))

\* lines 145-153 (156-164) with nothing running in between
angle_percentages(current, center, tolerance) ==
    LET offset == Abs(current - center)
    IN  IF offset < tolerance THEN Return(0)
        ELSE angle_value(offset, current > center, center)

joy_x_angle_percentages == angle_percentages(joy_x, joy_x_center, tolerance_joy_x)
joy_y_angle_percentages == angle_percentages(joy_y, joy_y_center, tolerance_joy_y)

\* ------------------------------------------------------------------------
\* The bus: what i2c.writeto, i2c.readfrom_into and time.sleep_ms were asked
\* ------------------------------------------------------------------------
Ctx == {"main", "timer"}

INIT_COMMAND == <<64, 0>>
REQUEST_COMMAND == <<0, 0>>

BusWrite(c, bytes) == [kind |-> "writeto", ctx |-> c, addr |-> address, data |-> bytes]
BusRead(c, bytes) == [kind |-> "readfrom_into", ctx |-> c, addr |-> address, data |-> bytes]
Sleep(c, ms) == [kind |-> "sleep_ms", ctx |-> c, addr |-> 0, data |-> <<ms>>]

\* bytearray(6)
bytearray6 == [i \in 1..FrameLen |-> 0]

\* the joystick at rest, no button pressed
ExampleFrame == <<140, 120, 135, 125, 115, 3>>

\* frames the device answers with
DeviceFrames ==
    { ExampleFrame,
      <<0, 0, 0, 0, 0, 0>>,
      <<255, 255, 255, 255, 255, 255>>,
      <<120, 131, 99, 200, 7, 101>> }

\* the frames of the specification with a failing transport
FewFrames == { ExampleFrame, <<255, 255, 255, 255, 255, 255>> }

\* ------------------------------------------------------------------------
\* The statements that follow update() in a method, one per read of the
\* shared state: the bodies of the accessors, in the order they are called
\* ------------------------------------------------------------------------
\* c_button() then z_button(): lines 111, 112 in fix mode, 141 and 134 otherwise
Buttons ==
    IF nunchuck_c_z_fix_mode
    THEN <<"c_value_c", "c_value_z", "z_value_c", "z_value_z">>
    ELSE <<"c_default", "z_default">>

\* lines 145, 147-150, 151-153 and 156, 158-161, 162-164
Angles == <<"x_offset", "x_sign", "x_angle", "y_offset", "y_sign", "y_angle">>

\* lines 94, 98, 102: self.buffer[k] << 2, then self.buffer[5] >> shift
Accels == <<"acc_x_hi", "acc_x_lo", "acc_y_hi", "acc_y_lo", "acc_z_hi", "acc_z_lo">>

\* the statements of method o after its update(), or of o itself
Statements(o) ==
    CASE o \in {"__init__", "calibrate"} -> <<"cal_x", "cal_y">>
      [] o = "calibrate_joy_x_center" -> <<"cal_x">>
      [] o = "calibrate_joy_y_center" -> <<"cal_y">>
      [] o = "json" ->
            Buttons \o <<"joy_x", "joy_y", "x_cal_center", "y_cal_center">>
                    \o Angles \o Accels
      [] o \in {"__str__", "__repr__"} ->
            Buttons \o <<"joy_x", "joy_y">> \o Accels \o Angles
      [] OTHER -> <<>>

\* statement s, run on the locals l, reads self.buffer: the sign test is
\* reached (line 150, 161) only at or above the tolerance
ReadsBuffer(s, l) ==
    CASE s \in {"x_cal_center", "y_cal_center", "x_angle", "y_angle"} -> FALSE
      [] s = "x_sign" -> ~(l.offset < tolerance_joy_x)
      [] s = "y_sign" -> ~(l.offset < tolerance_joy_y)
      [] OTHER -> TRUE

\* d = {} and the other locals of a method that has not assigned them yet
EmptyDict == [k \in {} |-> 0]
NoLocals == [d |-> EmptyDict, value_c |-> FALSE, offset |-> 0, positive |-> FALSE, hi |-> 0]

\* d[k] = v
Store(l, k, v) == [l EXCEPT !.d = (k :> v) @@ l.d]

\* the statement went on to the one `next` places further, or raised exc
Done(l, next) == [l |-> l, exc |-> "None", next |-> next]
Raised(l, exc) == [l |-> l, exc |-> exc, next |-> 1]

\* one axis: line 147-150 (158-161), then line 151-153 (162-164)
sign_test(l, k, current, center, tolerance) ==
    IF l.offset < tolerance THEN Done(Store(l, k, 0), 2)
    ELSE Done([l EXCEPT !.positive = current > center], 1)

divide(l, k, center) ==
    LET r == angle_value(l.offset, l.positive, center)
    IN  IF r.exc # "None" THEN Raised(l, r.exc) ELSE Done(Store(l, k, r.val), 1)

\* statement s run on the locals l of its method
statement(s, l) ==
    CASE s \in {"cal_x", "cal_y"} -> Done(l, 1)
      [] s \in {"c_value_c", "z_value_c"} -> Done([l EXCEPT !.value_c = value_c_read], 1)
      [] s = "c_value_z" -> Done(Store(l, "c", z_c_decode(l.value_c, value_z_read)[1]), 1)
      [] s = "z_value_z" -> Done(Store(l, "z", z_c_decode(l.value_c, value_z_read)[2]), 1)
      [] s = "c_default" -> Done(Store(l, "c", c_button_default), 1)
      [] s = "z_default" -> Done(Store(l, "z", z_button_default), 1)
      [] s = "joy_x" -> Done(Store(l, "joy_x", joy_x), 1)
      [] s = "joy_y" -> Done(Store(l, "joy_y", joy_y), 1)
      [] s = "x_cal_center" -> Done(Store(l, "x_cal_center", joy_x_center), 1)
      [] s = "y_cal_center" -> Done(Store(l, "y_cal_center", joy_y_center), 1)
      [] s = "x_offset" -> Done([l EXCEPT !.offset = Abs(joy_x - joy_x_center)], 1)
      [] s = "x_sign" -> sign_test(l, "x_angle_perc", joy_x, joy_x_center, tolerance_joy_x)
      [] s = "x_angle" -> divide(l, "x_angle_perc", joy_x_center)
      [] s = "y_offset" -> Done([l EXCEPT !.offset = Abs(joy_y - joy_y_center)], 1)
      [] s = "y_sign" -> sign_test(l, "y_angle_perc", joy_y, joy_y_center, tolerance_joy_y)
      [] s = "y_angle" -> divide(l, "y_angle_perc", joy_y_center)
      [] s = "acc_x_hi" -> Done([l EXCEPT !.hi = accel_hi(3)], 1)
      [] s = "acc_x_lo" -> Done(Store(l, "acc_x", l.hi + accel_lo(2)), 1)
      [] s = "acc_y_hi" -> Done([l EXCEPT !.hi = accel_hi(4)], 1)
      [] s = "acc_y_lo" -> Done(Store(l, "acc_y", l.hi + accel_lo(4)), 1)
      [] s = "acc_z_hi" -> Done([l EXCEPT !.hi = accel_hi(5)], 1)
      [] s = "acc_z_lo" -> Done(Store(l, "acc_z", l.hi + accel_lo(6)), 1)

\* the dictionary json() serialises
json_dict(d) ==
    [c |-> d["c"],
     z |-> d["z"],
     joy |-> [x |-> d["joy_x"], y |-> d["joy_y"],
              x_cal_center |-> d["x_cal_center"], y_cal_center |-> d["y_cal_center"],
              x_angle_perc |-> d["x_angle_perc"], y_angle_perc |-> d["y_angle_perc"]],
     acc |-> [x |-> d["acc_x"], y |-> d["acc_y"], z |-> d["acc_z"]]]

\* a bool formatted with a width prints as the integer
format_bool(b) == IF b THEN 1 ELSE 0

\* the fields __str__() formats
str_fields(d) ==
    [c |-> format_bool(d["c"]),
     z |-> format_bool(d["z"]),
     joy |-> [x |-> d["joy_x"], y |-> d["joy_y"],
              x_angle_perc |-> d["x_angle_perc"], y_angle_perc |-> d["y_angle_perc"]],
     acc |-> [x |-> d["acc_x"], y |-> d["acc_y"], z |-> d["acc_z"]]]

\* what method o returns once its last statement has run
return_value(o, d) ==
    CASE o = "json" -> <<json_dict(d)>>
      [] o = "__str__" -> <<str_fields(d)>>
      [] o = "__repr__" -> <<[Nunchuck |-> str_fields(d)]>>
      [] OTHER -> <<>>

\* ------------------------------------------------------------------------
\* Control
\* ------------------------------------------------------------------------
\* the method of context c ends: normally (exc = "None") or by raising exc
Leave(c, ret, exc) ==
    /\ pc' = [pc EXCEPT ![c] = IF op[c] = "__init__" /\ exc # "None" THEN "failed" ELSE "idle"]
    /\ op' = [op EXCEPT ![c] = "None"]
    /\ result' = [result EXCEPT ![c] = ret]
    /\ raised' = [raised EXCEPT ![c] = exc]
    /\ stmt' = [stmt EXCEPT ![c] = 0]
    /\ local' = [local EXCEPT ![c] = NoLocals]

\* the method of context c goes on at p
Goto(c, p) ==
    /\ pc' = [pc EXCEPT ![c] = p]
    /\ UNCHANGED <<op, result, raised, stmt, local>>

\* fetch_data() returned to its caller
fetch_data_return(c) ==
    IF Statements(op[c]) = <<>>
    THEN Leave(c, <<>>, "None")
    ELSE /\ pc' = [pc EXCEPT ![c] = "tail"]
         /\ stmt' = [stmt EXCEPT ![c] = 1]
         /\ UNCHANGED <<op, result, raised, local>>

\* ------------------------------------------------------------------------
\* __init__: lines 32-45 are the initial state, then init_nunchuck, sleep_ms,
\* calibrate
\* ------------------------------------------------------------------------
Init ==
    /\ nunchuck_c_z_fix_mode \in BOOLEAN
    /\ buffer = bytearray6
    /\ _joy_x_center = 0
    /\ _joy_y_center = 0
    /\ i2c = <<>>
    /\ pc = [c \in Ctx |-> IF c = "main" THEN "init_nunchuck" ELSE "idle"]
    /\ op = [c \in Ctx |-> IF c = "main" THEN "__init__" ELSE "None"]
    /\ result = [c \in Ctx |-> <<>>]
    /\ raised = [c \in Ctx |-> "None"]
    /\ filled = FALSE
    /\ calls = 0
    /\ overlapped = FALSE
    /\ saw_unfilled = FALSE
    /\ stmt = [c \in Ctx |-> 0]
    /\ local = [c \in Ctx |-> NoLocals]
    /\ called = {}
    /\ orphaned = {}

\* line 51; called by __init__ (line 46) or by the user
init_nunchuck(c) ==
    /\ pc[c] = "init_nunchuck"
    /\ i2c' = Append(i2c, BusWrite(c, INIT_COMMAND))
    /\ IF op[c] = "__init__" THEN Goto(c, "init_sleep_ms") ELSE Leave(c, <<>>, "None")
    /\ UNCHANGED <<nunchuck_c_z_fix_mode, buffer, _joy_x_center, _joy_y_center,
                   filled, calls, overlapped, saw_unfilled, called,
                   orphaned>>

\* line 47
init_sleep_ms(c) ==
    /\ pc[c] = "init_sleep_ms"
    /\ i2c' = Append(i2c, Sleep(c, SettleMs))
    /\ Goto(c, "writeto")
    /\ UNCHANGED <<nunchuck_c_z_fix_mode, buffer, _joy_x_center, _joy_y_center,
                   filled, calls, overlapped, saw_unfilled, called,
                   orphaned>>

\* ------------------------------------------------------------------------
\* A caller enters a public method of the constructed instance
\* ------------------------------------------------------------------------
Methods(c) ==
    IF c = "main"
    THEN {"update", "calibrate", "json", "__str__", "__repr__",
          "init_nunchuck", "submit_data_request", "fetch_data",
          "calibrate_joy_x_center", "calibrate_joy_y_center"}
    ELSE {"update"}

\* the methods that drive the bus without being a whole update()
BusHelpers == {"init_nunchuck", "submit_data_request", "fetch_data"}

\* the first statement of method o
Entry(o) ==
    CASE o = "init_nunchuck" -> "init_nunchuck"
      [] o = "fetch_data" -> "bytearray"
      [] o \in {"calibrate_joy_x_center", "calibrate_joy_y_center"} -> "tail"
      [] OTHER -> "writeto"

Constructed == op["main"] # "__init__" /\ pc["main"] # "failed"

Invoke(c, o) ==
    /\ Constructed
    /\ pc[c] = "idle"
    /\ calls < MaxCalls
    /\ o \in Methods(c)
    /\ calls' = calls + 1
    /\ called' = called \cup {o}
    /\ op' = [op EXCEPT ![c] = o]
    /\ result' = [result EXCEPT ![c] = <<>>]
    /\ raised' = [raised EXCEPT ![c] = "None"]
    /\ overlapped' = (overlapped \/ \E d \in Ctx \ {c} : pc[d] # "idle")
    /\ pc' = [pc EXCEPT ![c] = Entry(o)]
    /\ stmt' = [stmt EXCEPT ![c] = IF Entry(o) = "tail" THEN 1 ELSE 0]
    /\ UNCHANGED <<nunchuck_c_z_fix_mode, buffer, _joy_x_center, _joy_y_center, i2c,
                   filled, saw_unfilled, local,
                   orphaned>>

\* ------------------------------------------------------------------------
\* update(): submit_data_request() then fetch_data()
\* ------------------------------------------------------------------------
\* line 54
submit_data_request_writeto(c) ==
    /\ pc[c] = "writeto"
    /\ i2c' = Append(i2c, BusWrite(c, REQUEST_COMMAND))
    /\ Goto(c, "sleep_ms")
    /\ UNCHANGED <<nunchuck_c_z_fix_mode, buffer, _joy_x_center, _joy_y_center,
                   filled, calls, overlapped, saw_unfilled, called,
                   orphaned>>

\* seeded fault: no settling delay between request and read
submit_data_request_no_sleep(c) ==
    /\ pc[c] = "sleep_ms"
    /\ IF op[c] = "submit_data_request" THEN Leave(c, <<>>, "None") ELSE Goto(c, "bytearray")
    /\ UNCHANGED <<nunchuck_c_z_fix_mode, buffer, _joy_x_center, _joy_y_center, i2c,
                   filled, calls, overlapped, saw_unfilled, called,
                   orphaned>>

\* line 55
submit_data_request_sleep_ms(c) ==
    /\ pc[c] = "sleep_ms"
    /\ i2c' = Append(i2c, Sleep(c, SettleMs))
    /\ IF op[c] = "submit_data_request" THEN Leave(c, <<>>, "None") ELSE Goto(c, "bytearray")
    /\ UNCHANGED <<nunchuck_c_z_fix_mode, buffer, _joy_x_center, _joy_y_center,
                   filled, calls, overlapped, saw_unfilled, called,
                   orphaned>>

\* line 58: the bytearray another context has loaded is self.buffer no more
fetch_data_bytearray(c) ==
    /\ pc[c] = "bytearray"
    /\ buffer' = bytearray6
    /\ filled' = FALSE
    /\ orphaned' = {d \in Ctx : pc[d] = "readfrom_into"}
    /\ Goto(c, "self.buffer")
    /\ UNCHANGED <<nunchuck_c_z_fix_mode, _joy_x_center, _joy_y_center, i2c,
                   calls, overlapped, saw_unfilled, called>>

\* line 59, the argument: self.buffer is loaded
fetch_data_load_buffer(c) ==
    /\ pc[c] = "self.buffer"
    /\ orphaned' = orphaned \ {c}
    /\ Goto(c, "readfrom_into")
    /\ UNCHANGED <<nunchuck_c_z_fix_mode, buffer, _joy_x_center, _joy_y_center, i2c,
                   filled, calls, overlapped, saw_unfilled, called>>

\* the transport stored `bytes` into the bytearray context c had loaded
readfrom_into(c, bytes, full) ==
    /\ IF c \in orphaned
       THEN UNCHANGED <<buffer, filled>>
       ELSE /\ buffer' = [i \in 1..FrameLen |-> IF i <= Len(bytes) THEN bytes[i] ELSE buffer[i]]
            /\ filled' = full
    /\ orphaned' = orphaned \ {c}

\* seeded fault: the bytes never reach self.buffer
fetch_data_readfrom_into_stale(c, f) ==
    /\ pc[c] = "readfrom_into"
    /\ i2c' = Append(i2c, BusRead(c, f))
    /\ fetch_data_return(c)
    /\ UNCHANGED <<nunchuck_c_z_fix_mode, buffer, _joy_x_center, _joy_y_center,
                   filled, calls, overlapped, saw_unfilled, called, orphaned>>

\* line 59, the call: the device delivers the six bytes of frame f
fetch_data_readfrom_into(c, f) ==
    /\ pc[c] = "readfrom_into"
    /\ readfrom_into(c, f, TRUE)
    /\ i2c' = Append(i2c, BusRead(c, f))
    /\ fetch_data_return(c)
    /\ UNCHANGED <<nunchuck_c_z_fix_mode, _joy_x_center, _joy_y_center,
                   calls, overlapped, saw_unfilled, called>>

\* ------------------------------------------------------------------------
\* What follows update() in calibrate(), json(), __str__() and __repr__(),
\* and the two calibration helpers called on their own: one statement at a
\* time, each reading the buffer and the center as they are at that moment
\* ------------------------------------------------------------------------
\* line 81
calibrate_joy_x_center == _joy_x_center' = joy_x
\* line 84
calibrate_joy_y_center == _joy_y_center' = joy_y

tail_statement(c) ==
    /\ pc[c] = "tail"
    /\ \E s \in {Statements(op[c])[stmt[c]]} : \E r \in {statement(s, local[c])} :
           /\ IF s = "cal_x" THEN calibrate_joy_x_center ELSE UNCHANGED _joy_x_center
           /\ IF s = "cal_y" THEN calibrate_joy_y_center ELSE UNCHANGED _joy_y_center
           /\ saw_unfilled' = (saw_unfilled \/ (ReadsBuffer(s, local[c]) /\ ~filled))
           /\ IF r.exc # "None" THEN Leave(c, <<>>, r.exc)
              ELSE IF stmt[c] + r.next > Len(Statements(op[c]))
                   THEN Leave(c, return_value(op[c], r.l.d), "None")
              ELSE /\ stmt' = [stmt EXCEPT ![c] = stmt[c] + r.next]
                   /\ local' = [local EXCEPT ![c] = r.l]
                   /\ UNCHANGED <<pc, op, result, raised>>
    /\ UNCHANGED <<nunchuck_c_z_fix_mode, buffer, i2c, filled, calls, overlapped, called,
                   orphaned>>

\* ------------------------------------------------------------------------
\* One caller, a transport that always delivers the six bytes
\* ------------------------------------------------------------------------
Step(c, frames, methods) ==
    \/ init_nunchuck(c)
    \/ init_sleep_ms(c)
    \/ \E o \in methods : Invoke(c, o)
    \/ submit_data_request_writeto(c)
    \/ submit_data_request_sleep_ms(c)
    \/ fetch_data_bytearray(c)
    \/ fetch_data_load_buffer(c)
    \/ \E f \in frames : fetch_data_readfrom_into(c, f)
    \/ tail_statement(c)

Next == Step("main", DeviceFrames, Methods("main"))

Spec == Init /\ [][Next]_vars

\* ------------------------------------------------------------------------
\* Two execution contexts on one instance, no mutual exclusion: the main
\* loop (lines 207-210 print the instance and its json(); it may also poll
\* and recalibrate), and a timer callback running update() (lines 24-27).
\* The device answers the reads of the main loop with the joystick at rest
\* and those of the callback with the all-ones frame, so that every decoded
\* value tells whose read it came from.
\* ------------------------------------------------------------------------
Polling(c) == Methods(c) \cap {"update", "calibrate", "json", "__str__"}

RaceFrames(c) == IF c = "timer" THEN {<<255, 255, 255, 255, 255, 255>>} ELSE {ExampleFrame}

NextRace == \E c \in Ctx : Step(c, RaceFrames(c), Polling(c))

SpecRace == Init /\ [][NextRace]_vars

\* ------------------------------------------------------------------------
\* One polling caller, a transport that may fail: i2c.readfrom_into delivers only the
\* first n < 6 bytes of the frame and then returns or raises OSError;
\* i2c.writeto raises OSError.  Nothing in the driver catches or checks.
\* ------------------------------------------------------------------------
fetch_data_short_read(c, f, n) ==
    /\ pc[c] = "readfrom_into"
    /\ n < FrameLen
    /\ readfrom_into(c, SubSeq(f, 1, n), FALSE)
    /\ i2c' = Append(i2c, BusRead(c, SubSeq(f, 1, n)))
    /\ fetch_data_return(c)
    /\ UNCHANGED <<nunchuck_c_z_fix_mode, _joy_x_center, _joy_y_center,
                   calls, overlapped, saw_unfilled, called>>

fetch_data_read_raises(c, f, n) ==
    /\ pc[c] = "readfrom_into"
    /\ n < FrameLen
    /\ readfrom_into(c, SubSeq(f, 1, n), FALSE)
    /\ i2c' = Append(i2c, BusRead(c, SubSeq(f, 1, n)))
    /\ Leave(c, <<>>, "OSError")
    /\ UNCHANGED <<nunchuck_c_z_fix_mode, _joy_x_center, _joy_y_center,
                   calls, overlapped, saw_unfilled, called>>

writeto_raises(c) ==
    /\ pc[c] \in {"init_nunchuck", "writeto"}
    /\ Leave(c, <<>>, "OSError")
    /\ UNCHANGED <<nunchuck_c_z_fix_mode, buffer, _joy_x_center, _joy_y_center, i2c,
                   filled, calls, overlapped, saw_unfilled, called,
                   orphaned>>

NextFault ==
    \/ Step("main", FewFrames, Polling("main"))
    \/ \E f \in FewFrames, n \in 0..FrameLen : fetch_data_short_read("main", f, n)
    \/ \E f \in FewFrames, n \in 0..FrameLen : fetch_data_read_raises("main", f, n)
    \/ writeto_raises("main")

SpecFault == Init /\ [][NextFault]_vars

\* ------------------------------------------------------------------------
\* The decoder, the buttons and the angle percentages on every input: json()
\* on a constructed instance, from the statement `first` of what follows its
\* update()
\* ------------------------------------------------------------------------
CycleLog(c, f) == <<BusWrite(c, REQUEST_COMMAND), Sleep(c, SettleMs), BusRead(c, f)>>

\* the index of statement s among those of json()
Position(s) == CHOOSE i \in 1..Len(Statements("json")) : Statements("json")[i] = s

\* the locals of json() after its statements i .. stop - 1 ran on locals l
RECURSIVE Run(_, _, _)
Run(i, stop, l) ==
    IF i >= stop THEN l
    ELSE CHOOSE after \in { Run(i + r.next, stop, r.l) :
                r \in {statement(s, l) : s \in {Statements("json")[i]}} } : TRUE

\* the instance was constructed with mode fm while the device answered f0,
\* then json() was called, its update() read f, and it ran up to `first`
AfterUpdate(fm, f0, f, first) ==
    /\ nunchuck_c_z_fix_mode = fm
    /\ buffer = f
    /\ _joy_x_center = f0[1]
    /\ _joy_y_center = f0[2]
    /\ i2c = <<BusWrite("main", INIT_COMMAND), Sleep("main", SettleMs)>>
             \o CycleLog("main", f0) \o CycleLog("main", f)
    /\ pc = [c \in Ctx |-> IF c = "main" THEN "tail" ELSE "idle"]
    /\ op = [c \in Ctx |-> IF c = "main" THEN "json" ELSE "None"]
    /\ result = [c \in Ctx |-> <<>>]
    /\ raised = [c \in Ctx |-> "None"]
    /\ filled = TRUE
    /\ calls = 1
    /\ overlapped = FALSE
    /\ saw_unfilled = FALSE
    /\ stmt = [c \in Ctx |-> IF c = "main" THEN Position(first) ELSE 0]
    /\ local = [c \in Ctx |-> IF c = "main" THEN Run(1, Position(first), NoLocals)
                                             ELSE NoLocals]
    /\ called = {"json"}
    /\ orphaned = {}

NextDecode == tail_statement("main")

\* every value of byte 5, both modes
InitButtons ==
    \E fm \in BOOLEAN, b \in Byte, f \in {ExampleFrame, bytearray6} :
        AfterUpdate(fm, f, [f EXCEPT ![6] = b], IF fm THEN "c_value_c" ELSE "c_default")

SpecButtons == InitButtons /\ [][NextDecode]_vars

\* every value of each accelerometer byte with every value of byte 5 (the
\* three bytes differ from one another in every frame)
BoundaryFrames == { <<0, 0, 0, 0, 0, 0>>, <<0, 0, 255, 255, 255, 255>> }

AccelFrame(hi, b) == <<140, 120, hi, 255 - hi, (hi + 85) % 256, b>>

InitAccel ==
    \/ \E hi \in Byte, b \in Byte : AfterUpdate(FALSE, ExampleFrame, AccelFrame(hi, b), "acc_x_hi")
    \/ \E f \in BoundaryFrames : AfterUpdate(FALSE, f, f, "acc_x_hi")

SpecAccel == InitAccel /\ [][NextDecode]_vars

\* every calibration center with every current reading, one axis at a time
InitAngle ==
    \/ \E center \in Byte, current \in Byte :
           AfterUpdate(FALSE, [ExampleFrame EXCEPT ![1] = center],
                              [ExampleFrame EXCEPT ![1] = current], "x_offset")
    \/ \E center \in Byte, current \in Byte :
           AfterUpdate(FALSE, [ExampleFrame EXCEPT ![2] = center],
                              [ExampleFrame EXCEPT ![2] = current], "y_offset")

SpecAngle == InitAngle /\ [][NextDecode]_vars

\* ========================================================================
\* Properties
\* ========================================================================
\* what the last call of the main context returned (when it returned a value)
Returned == result["main"] # <<>>
Snapshot == result["main"][1]

\* bit k of byte 5 of the held frame
FrameBit(k) == (buffer[6] \div Pow2(k)) % 2

\* the joint table of fix mode, indexed by <<bit1 (C-line), bit0 (Z-line)>>,
\* giving <<c_pressed, z_pressed>>
FixTable(bit1, bit0) ==
    CASE bit1 = 1 /\ bit0 = 1 -> <<FALSE, FALSE>>
      [] bit1 = 0 /\ bit0 = 1 -> <<TRUE, FALSE>>
      [] bit1 = 0 /\ bit0 = 0 -> <<FALSE, TRUE>>
      [] bit1 = 1 /\ bit0 = 0 -> <<TRUE, TRUE>>

\* independent active-low decode of default mode
DefaultDecode(bit1, bit0) == <<bit1 = 0, bit0 = 0>>

ExpectedButtons ==
    IF nunchuck_c_z_fix_mode
    THEN FixTable(FrameBit(1), FrameBit(0))
    ELSE DefaultDecode(FrameBit(1), FrameBit(0))

\* C1: in either mode, for every value of byte 5, c_button() and z_button()
\* are booleans equal to the specified decode of bit 1 and bit 0 alone (the
\* joint table in fix mode, NOT bit independently in default mode), and
\* json() reports the same pair.
C1_ButtonDecode ==
    /\ c_button \in BOOLEAN
    /\ z_button \in BOOLEAN
    /\ <<c_button, z_button>> = ExpectedButtons
    /\ Returned => <<Snapshot.c, Snapshot.z>> = ExpectedButtons

\* fix mode, byte 5 = 0b11111110: row (1,0) of the table with all other bits set
C1_Witness ==
    /\ Returned
    /\ nunchuck_c_z_fix_mode
    /\ buffer[6] = 254
    /\ Snapshot.c = TRUE
    /\ Snapshot.z = TRUE

\* C2: for every frame each accelerometer value is (high byte << 2) | (two
\* bits of byte 5 at offset 2, 4, 6), lies in 0..1023, is 0 for the all-zero
\* frame and 1023 for [0,0,0xFF,0xFF,0xFF,0xFF]; json() reports these values.
C2_AccelDecode ==
    /\ accel_x = BitOr(Shl(buffer[3], 2), BitAnd(Shr(buffer[6], 2), 3))
    /\ accel_y = BitOr(Shl(buffer[4], 2), BitAnd(Shr(buffer[6], 4), 3))
    /\ accel_z = BitOr(Shl(buffer[5], 2), BitAnd(Shr(buffer[6], 6), 3))
    /\ {accel_x, accel_y, accel_z} \subseteq 0..1023
    /\ buffer = <<0, 0, 0, 0, 0, 0>> => <<accel_x, accel_y, accel_z>> = <<0, 0, 0>>
    /\ buffer = <<0, 0, 255, 255, 255, 255>>
          => <<accel_x, accel_y, accel_z>> = <<1023, 1023, 1023>>
    /\ Returned => Snapshot.acc = [x |-> accel_x, y |-> accel_y, z |-> accel_z]

C2_Witness ==
    /\ Returned
    /\ buffer = <<0, 0, 255, 255, 255, 255>>
    /\ Snapshot.acc = [x |-> 1023, y |-> 1023, z |-> 1023]

\* ------------------------------------------------------------------------
\* Angle percentages
\* ------------------------------------------------------------------------
XOffset == Abs(joy_x - joy_x_center)
YOffset == Abs(joy_y - joy_y_center)

\* the gating and sign of one axis, for the centers in `centers`
Gating(current, center, tolerance, r, centers) ==
    /\ Abs(current - center) < tolerance => r = Return(0)
    /\ (center \in centers /\ current = center + 16) => (r.exc = "None" /\ r.val > 0)
    /\ (center \in centers /\ current = center - 16) => (r.exc = "None" /\ r.val < 0)

\* C3 as stated: for every center in 0..255 an offset below the tolerance
\* gives 0, a reading of center + 16 a positive and of center - 16 a negative
\* integer, on both axes.
C3_Original ==
    /\ Gating(joy_x, joy_x_center, 15, joy_x_angle_percentages, Byte)
    /\ Gating(joy_y, joy_y_center, 5, joy_y_angle_percentages, Byte)

\* C3 amended: the same, with the sign clauses for every nonzero center (at
\* center 0 a reading of 16 ends in a division by zero); json() reports the
\* same values.
C3_ToleranceGating ==
    /\ Gating(joy_x, joy_x_center, 15, joy_x_angle_percentages, 1..ByteMax)
    /\ Gating(joy_y, joy_y_center, 5, joy_y_angle_percentages, 1..ByteMax)
    /\ Returned => /\ Snapshot.joy.x_angle_perc = joy_x_angle_percentages.val
                   /\ Snapshot.joy.y_angle_perc = joy_y_angle_percentages.val

\* center 128, reading 144 = center + 16: json() reported int(12.5) = 12
C3_Witness ==
    /\ Returned
    /\ joy_x_center = 128
    /\ joy_x = 144
    /\ Snapshot.joy.x_angle_perc = 12

\* round(n / d) to the nearest integer, ties to even, for n >= 0, d > 0
RoundNearest(n, d) ==
    LET q == (2 * n + d) \div (2 * d)
    IN  IF (2 * n + d) % (2 * d) = 0 /\ q % 2 = 1 THEN q - 1 ELSE q

Signed(current, center, magnitude) == IF current < center THEN -magnitude ELSE magnitude

\* C4 as stated: at or above the tolerance, with a nonzero center, the
\* result is round(offset / center * 100), negated when current < center.
C4_Original ==
    /\ (joy_x_center # 0 /\ XOffset >= tolerance_joy_x) =>
          joy_x_angle_percentages =
              Return(Signed(joy_x, joy_x_center, RoundNearest(100 * XOffset, joy_x_center)))
    /\ (joy_y_center # 0 /\ YOffset >= tolerance_joy_y) =>
          joy_y_angle_percentages =
              Return(Signed(joy_y, joy_y_center, RoundNearest(100 * YOffset, joy_y_center)))

\* the float product offset / center * 100 truncated toward zero: the floor
\* of the exact quotient, or one less where the quotient is an exact integer
\* that the float product falls just short of
Truncated(offset, center, t) ==
    LET exact == (100 * offset) \div center
    IN  \/ t = exact
        \/ t = exact - 1 /\ (100 * offset) % center = 0

\* C4 amended: at or above the tolerance, with a nonzero center, the result
\* is offset / center * 100 truncated toward zero (never rounded up), negated
\* when current < center.
C4_Truncation ==
    /\ (joy_x_center # 0 /\ XOffset >= tolerance_joy_x) =>
          LET r == joy_x_angle_percentages
          IN  /\ r.exc = "None"
              /\ Truncated(XOffset, joy_x_center, Abs(r.val))
              /\ r.val = Signed(joy_x, joy_x_center, Abs(r.val))
              /\ Returned => Snapshot.joy.x_angle_perc = r.val
    /\ (joy_y_center # 0 /\ YOffset >= tolerance_joy_y) =>
          LET r == joy_y_angle_percentages
          IN  /\ r.exc = "None"
              /\ Truncated(YOffset, joy_y_center, Abs(r.val))
              /\ r.val = Signed(joy_y, joy_y_center, Abs(r.val))
              /\ Returned => Snapshot.joy.y_angle_perc = r.val

\* center 30, reading 10: 20 / 30 * 100 = 66.67, json() reported -66
C4_Witness ==
    /\ Returned
    /\ joy_x_center = 30
    /\ joy_x = 10
    /\ Snapshot.joy.x_angle_perc = -66

\* C5: when the calibration center of an axis is 0, the angle computation of
\* that axis fails with CalibrationError, whatever the current reading.
C5_CalibrationError ==
    /\ joy_x_center = 0 => joy_x_angle_percentages.exc = "CalibrationError"
    /\ joy_y_center = 0 => joy_y_angle_percentages.exc = "CalibrationError"
    /\ (pc["main"] = "idle" /\ calls = 1 /\ (joy_x_center = 0 \/ joy_y_center = 0))
          => raised["main"] = "CalibrationError"

\* ------------------------------------------------------------------------
\* Transport failures
\* ------------------------------------------------------------------------
LastOp == i2c[Len(i2c)]

\* the last thing on the bus was a read that delivered fewer than six bytes
ShortReadLast ==
    /\ Len(i2c) > 0
    /\ LastOp.kind = "readfrom_into"
    /\ Len(LastOp.data) < FrameLen

\* the held buffer mixes bytes of this cycle with bytes the device did not send
PartiallyPopulated == ShortReadLast /\ Len(LastOp.data) > 0 /\ ~filled

\* C6: after a read that delivered fewer than six bytes the call has ended
\* with a transport error (OSError is what the transport raises), and the
\* held frame is not partially populated.
C6_ShortReadIsError ==
    ShortReadLast => (raised["main"] = "OSError" /\ ~PartiallyPopulated)

\* ------------------------------------------------------------------------
\* Buttons: the example frames
\* ------------------------------------------------------------------------
ExampleDecode ==
    buffer = ExampleFrame =>
        /\ <<c_button, z_button>> = <<FALSE, FALSE>>
        /\ joy_x = 140
        /\ joy_y = 120

\* C7 as stated: the example frame decodes to (c, z) = (false, false) in both
\* modes with joy_x = 140, joy_y = 120, and for byte 5 = 0b00000001 the pair
\* of fix mode (z_c_buttons) differs from the pair of default mode.
C7_Original ==
    /\ ExampleDecode
    /\ (~nunchuck_c_z_fix_mode /\ buffer[6] = 1) => <<c_button, z_button>> # z_c_buttons

\* C7 amended: the example frame as stated; for byte 5 = 0b00000001 both
\* modes return the same pair (c = true, z = false); the pairs of the two
\* modes differ exactly when bit 0 of byte 5 is clear (0b00 and 0b10).
C7_ModesDivergeOnBit0 ==
    /\ ExampleDecode
    /\ buffer[6] = 1 => <<c_button, z_button>> = <<TRUE, FALSE>>
    /\ nunchuck_c_z_fix_mode => <<c_button, z_button>> = z_c_buttons
    /\ ~nunchuck_c_z_fix_mode =>
          ((<<c_button, z_button>> # z_c_buttons) <=> (FrameBit(0) = 0))
    /\ Returned => <<Snapshot.c, Snapshot.z>> = <<c_button, z_button>>

\* byte 5 = 0b00000001 decoded by json() in fix mode
C7_Witness ==
    /\ Returned
    /\ nunchuck_c_z_fix_mode
    /\ buffer[6] = 1
    /\ <<Snapshot.c, Snapshot.z>> = <<TRUE, FALSE>>

\* ------------------------------------------------------------------------
\* Order of bus operations
\* ------------------------------------------------------------------------
IsRequestCycle(i) ==
    /\ i >= 3
    /\ i2c[i].kind = "readfrom_into"
    /\ i2c[i - 1] = Sleep(i2c[i].ctx, SettleMs)
    /\ i2c[i - 2] = BusWrite(i2c[i].ctx, REQUEST_COMMAND)

\* a read that does not directly follow its own request and settling delay
OrphanRead ==
    \E i \in 1..Len(i2c) : i2c[i].kind = "readfrom_into" /\ ~IsRequestCycle(i)

Reads == {i \in 1..Len(i2c) : i2c[i].kind = "readfrom_into"}
Center == <<_joy_x_center, _joy_y_center>>

\* a caller drove the bus with init_nunchuck(), submit_data_request() or
\* fetch_data() instead of a whole update()
DirectBusCall == called \cap BusHelpers # {}

\* C8: with a single caller that constructs the instance and then calls
\* update(), json(), __str__() (or calibrate(), __repr__()), the bus sees the
\* initialization write (0x40 0x00 to 0x52), a delay, and then only request
\* write (0x00 0x00 to 0x52), delay, 6-byte read, in that order; no read
\* precedes the initialization write; every read directly follows its own
\* request and delay; the calibration center is assigned only after the
\* first read.
C8_BusOrder ==
    ~DirectBusCall =>
        /\ Len(i2c) >= 1 =>
              i2c[1] = [kind |-> "writeto", ctx |-> "main", addr |-> 82, data |-> <<64, 0>>]
        /\ Len(i2c) >= 2 => i2c[2] = [kind |-> "sleep_ms", ctx |-> "main", addr |-> 0,
                                      data |-> <<5>>]
        /\ \A i \in 3..Len(i2c) :
              CASE i % 3 = 0 -> i2c[i] = [kind |-> "writeto", ctx |-> "main", addr |-> 82,
                                          data |-> <<0, 0>>]
                [] i % 3 = 1 -> i2c[i] = [kind |-> "sleep_ms", ctx |-> "main", addr |-> 0,
                                          data |-> <<5>>]
                [] i % 3 = 2 -> /\ i2c[i].kind = "readfrom_into"
                                /\ i2c[i].addr = 82
                                /\ Len(i2c[i].data) = 6
        /\ ~OrphanRead
        /\ Reads = {} => Center = <<0, 0>>
        /\ (op["main"] = "__init__" /\ pc["main"] # "tail") => Center = <<0, 0>>
        /\ Constructed => (Len(i2c) >= 5 /\ i2c[5].kind = "readfrom_into")

\* construction, then json() and __str__(): three complete cycles
C8_Witness ==
    /\ Constructed
    /\ pc["main"] = "idle"
    /\ called = {"json", "__str__"}
    /\ Len(i2c) = 11
    /\ i2c[11].kind = "readfrom_into"

\* ------------------------------------------------------------------------
\* Calibration center
\* ------------------------------------------------------------------------
Min(S) == CHOOSE x \in S : \A y \in S : x <= y
Max(S) == CHOOSE x \in S : \A y \in S : x >= y
FirstFrame == i2c[Min(Reads)].data
LastFrame == i2c[Max(Reads)].data

\* C9: construction leaves the center at joy_x/joy_y of the first frame read;
\* only calibrate() (in __init__ or called explicitly) changes the center, and
\* it sets it to joy_x/joy_y of the frame it read, so calibrating again on
\* the same frame gives the same center; every other call leaves it alone;
\* fix_mode never changes.
C9_CenterFrame ==
    [][ /\ nunchuck_c_z_fix_mode' = nunchuck_c_z_fix_mode
        /\ (op["main"] = "__init__" /\ op'["main"] # "__init__")
              => Center' = <<FirstFrame[1], FirstFrame[2]>>
        /\ (op["main"] = "calibrate" /\ op'["main"] # "calibrate")
              => Center' = <<LastFrame[1], LastFrame[2]>>
        /\ op["main"] \in {"update", "json", "__str__"} => Center' = Center
        /\ Center' # Center
              => (pc["main"] = "tail" /\ op["main"] \in {"__init__", "calibrate"})
      ]_vars

\* ------------------------------------------------------------------------
\* Two contexts without mutual exclusion
\* ------------------------------------------------------------------------
\* C10: a read that does not directly follow its own request and delay, or
\* accessors decoding the fresh all-zero buffer before the device's bytes
\* arrived, happen only when two contexts were inside a method at the same
\* time (never with serialized callers); without locking both are reachable.
C10_RaceNeedsOverlap == (OrphanRead \/ saw_unfilled) => overlapped

\* both hazards have happened
C10_Witness == OrphanRead /\ saw_unfilled /\ overlapped

====
